---- MODULE Spec2Model ----
(***************************************************************************)
(* FLteach: the Telegram teaching bot (src/src/FLteach/bot/telegram.py)    *)
(* with its generation client (src/src/FLteach/llm/openai_api.py).         *)
(*                                                                         *)
(* A handler is a function from the bot's state to the SET of states it    *)
(* can leave behind: the generation service is external, so every call of  *)
(* it may raise or return any of a few abstract replies.  An action of the *)
(* model is one whole handler run (one inbound message, one scheduler      *)
(* step), committed atomically.                                            *)
(***************************************************************************)
EXTENDS Integers, Sequences, FiniteSets, TLC

VARIABLES
    user_states,      \* self.user_states: chat -> profile (dict with optional keys)
    lesson_history,   \* self.lesson_history: ONE list shared by all chats
    next_step,        \* the transport's register_next_step_handler slot of each chat
    reminded_today,   \* self.reminded_today: chat -> "absent" | "false" | "true"
    jobs,             \* the schedule library's job list (never cancelled)
    clock,            \* the time of day the scheduler last saw
    sched,            \* the scheduler thread: idle, or inside a reminder callback
    sent_today,       \* reminders delivered to each chat since the last rollover
    shared,           \* self.language, self.level, ...: ONE copy for all chats
    boot,             \* TelegramBot.__init__: its arguments, the environment, its outcome
    last              \* what the last handler run did (calls, messages, exception)

vars == <<user_states, lesson_history, next_step, reminded_today, jobs, clock, sched, sent_today, shared, boot, last>>

----------------------------------------------------------------------------
(* Bounds of the model *)

\* longest lesson_history a handler may extend
MaxHist == 5
\* longest curriculum the generation service returns
MaxSections == 4
\* longest seen_content or mastered list a handler may leave
MaxContent == 3
\* most scheduled jobs (the daily reset included)
MaxJobs == 3

----------------------------------------------------------------------------
(* Value domains *)

Chats == {"A", "B"}

\* texts the generation service may return for a free-text prompt
Vals == {"v1", "v2"}

\* dict key not present
Absent == "ABSENT"
\* list-valued dict key not present
AbsentList == <<"ABSENT">>

\* the nine values of user_states[chat]['step'], in the order setup asks
StepOrder ==
    << "awaiting_language", "awaiting_level", "awaiting_lesson_preference",
       "awaiting_optional_questions_choice", "awaiting_learned_languages",
       "awaiting_mastered_content", "awaiting_limitation",
       "awaiting_reminder_time", "setup_complete" >>

Steps == {StepOrder[i] : i \in 1..Len(StepOrder)}

\* the place of a step in that order; 0 for a chat without profile
Rank(s) == IF s \in Steps THEN CHOOSE i \in 1..Len(StepOrder) : StepOrder[i] = s ELSE 0

\* chat_id not in self.user_states
NoProfile ==
    [ step |-> "NONE", language |-> Absent, level |-> Absent,
      limitation |-> Absent, next_lesson |-> Absent, reminder_time |-> Absent,
      learned_languages |-> AbsentList, mastered |-> <<>>, seen_content |-> <<>>,
      lesson_sections |-> AbsentList ]

\* {'step': 'awaiting_language'}
FreshProfile == [NoProfile EXCEPT !.step = "awaiting_language"]

\* inbound messages: a non-text message (message.text is None), a token
\* starting with '/', and free text (containing 'yes', containing 'no' but
\* not 'yes', or neither)
EmptyText == "EMPTY"
FreeTexts == {"yes", "no", "text"}
SlashTexts == {"/x", "/exit"}
Texts == {EmptyText} \cup SlashTexts \cup FreeTexts

\* not user_message or user_message.startswith('/')
Invalid(txt) == txt = EmptyText \/ txt \in SlashTexts

\* the seven profile-edit commands and the processor each one registers
EditCommands == {"language", "level", "limitation", "lesson", "learned", "mastered", "reminder"}

\* times of day "HH:MM"; "T0" is 00:00, the time of the daily reset
Times == {"T0", "T1", "T2"}

Turn(r, c) == [role |-> r, content |-> c]

----------------------------------------------------------------------------
(* The working state of a handler run *)

\* the record of one handler run: who, what, the generation calls made,
\* those that raised (failed), those of them in which the service itself
\* failed (down), the texts the service returned (replies), the replies in
\* which text2list found no list (unparsed), the messages sent, the exception
\* that left the handler, and the list the mastered-content cleaner was given
\* (AbsentList: it did not run), the levels named in the requests the run
\* built (levels), the values a /data report showed (data), and the calls
\* made after a call of the same run had raised (late), and the turns of
\* the history that the run's requests quote as the previous content (refs)
Io(c, h, txt) ==
    [ chat |-> c, handler |-> h, text |-> txt, calls |-> 0, failed |-> 0,
      down |-> 0, replies |-> <<>>, unparsed |-> 0,
      msgs |-> <<>>, exc |-> "none", cleaned |-> AbsentList,
      levels |-> {}, data |-> <<>>, late |-> 0, refs |-> <<>> ]

\* the bot's state as a handler sees it, with the run's own record io and
\* the texts V the generation service may answer with
Cur(V, c, h, txt) ==
    [ us |-> user_states, hist |-> lesson_history, pend |-> next_step,
      rem |-> reminded_today, jobs |-> jobs, gl |-> shared, vals |-> V,
      io |-> Io(c, h, txt) ]

\* self.bot.send_message(chat_id, ...)
Send(S, m) == [S EXCEPT !.io.msgs = Append(@, m)]

\* self.bot.register_next_step_handler(message, h)
Register(S, c, h) == [S EXCEPT !.pend[c] = h]

\* an exception leaves the handler
Raise(S, e) == [S EXCEPT !.io.exc = e]

HasProfile(S, c) == S.us[c].step # "NONE"

\* the fields of the bot object that hold profile values, as __init__ leaves
\* them; mastered and seen_content, lists that only grow (+=, append) or are
\* replaced, are kept as the set of their items
InitShared ==
    [ language |-> "None", level |-> "None", limitation |-> "None",
      learned_languages |-> <<"english (default)">>, reminder_time |-> "None",
      mastered |-> {}, seen_content |-> {} ]

\* a request is built that names the level lv
Names(S, lv) == [S EXCEPT !.io.levels = @ \cup {lv}]

\* a request is built that quotes self.lesson_history[-k]['content']
Quotes(S, k) == [S EXCEPT !.io.refs = Append(@, S.hist[Len(S.hist) + 1 - k])]

----------------------------------------------------------------------------
(* Generation client: OpenaiApi.call and TelegramBot.text2list *)

\* what the external service may answer
TextReply(v) == [kind |-> "text", text |-> v, items |-> <<>>]
\* an answer holding a fenced ```json block with a JSON array
JsonReply(l) == [kind |-> "json", text |-> "", items |-> l]
\* an answer with no fenced block, or a block that is not JSON
PlainReply == [kind |-> "plain", text |-> "", items |-> <<>>]
NoReply == [kind |-> "none", text |-> "", items |-> <<>>]

TextReplies(S) == {TextReply(v) : v \in S.vals}

\* the loop over history reads turn[0] and turn[1]; lesson_history holds
\* dicts {"role", "content"}, so the first turn raises KeyError
HistoryAccepted(history) == history = <<>>

\* self.model.call(user_prompt, system_prompt, history): the results, each
\* with the state in which the call is counted
call(S, history, Replies) ==
    LET S1 == [S EXCEPT !.io.calls = @ + 1,
                        !.io.late = IF S.io.failed > 0 THEN @ + 1 ELSE @]
        bad == [S |-> [S1 EXCEPT !.io.failed = @ + 1], ok |-> FALSE, val |-> NoReply]
        out == [S |-> [S1 EXCEPT !.io.failed = @ + 1, !.io.down = @ + 1],
                ok |-> FALSE, val |-> NoReply]
    IN  IF ~HistoryAccepted(history)
        THEN {bad}
        ELSE {out} \cup {[S |-> [S1 EXCEPT !.io.replies = Append(@, v.text)],
                          ok |-> TRUE, val |-> v] : v \in Replies}

\* re.findall(fenced block) then json.loads; [] when either fails
ParseList(reply) == IF reply.kind = "json" THEN reply.items ELSE <<>>

\* text2list never raises: both except clauses return []
text2list(S, Replies) ==
    { [S |-> IF r.ok /\ r.val.kind # "json"
             THEN [r.S EXCEPT !.io.unparsed = @ + 1] ELSE r.S,
       val |-> IF r.ok THEN ParseList(r.val) ELSE <<>>] :
        r \in call(S, <<>>, Replies) }

\* lists the service may return when asked what the user has mastered
MasteredReplies == {JsonReply(<<>>), JsonReply(<<"m1">>), PlainReply}

RECURSIVE SubLists(_)
SubLists(l) ==
    IF l = <<>> THEN {<<>>}
    ELSE LET r == SubLists(Tail(l)) IN r \cup {<<Head(l)>> \o x : x \in r}

\* what the service may return when asked to remove items from the list
\* `given`: at best it does as asked and returns part of the list
RemovalReplies(given) == {JsonReply(l) : l \in SubLists(given)} \cup {PlainReply}
\* lists the service may return for the known-languages prompt
LearnedReplies == {JsonReply(<<>>), JsonReply(<<"en">>), PlainReply}

SectionNames == <<"s1", "s2", "s3", "s4", "s5">>
\* curricula the service may return: 0..MaxSections sections
CurriculumReplies ==
    {JsonReply(SubSeq(SectionNames, 1, n)) : n \in 0..MaxSections} \cup {PlainReply}

\* answers to the reminder-time prompt and what dateutil's parser makes of them
IsoTime == [iso1 |-> "T1", iso2 |-> "T2"]
TimeReplies == {TextReply("None"), TextReply("iso1"), TextReply("iso2"), TextReply("garbage")}
\* parser.parse(text).strftime("%H:%M"); "ValueError" when it does not parse
ParseTime(text) == IF text \in DOMAIN IsoTime THEN IsoTime[text] ELSE "ValueError"

----------------------------------------------------------------------------
(* Mastered-content cleaner *)

\* user_states[chat_id].get('lesson_errors', []): no handler ever writes the key
LessonErrors(S, c) == <<>>

\* _clean_mastered: the list that text2list returns replaces 'mastered'
\* whatever the errors are
clean_mastered(S, c) ==
    IF ~HasProfile(S, c)
    THEN {Raise(S, "KeyError")}
    ELSE { [r.S EXCEPT !.us[c].mastered = r.val, !.io.cleaned = S.us[c].mastered] :
             r \in text2list(S, RemovalReplies(S.us[c].mastered)) }

----------------------------------------------------------------------------
(* Lesson driver *)

\* user_data.get('next_lesson', 'a general introductory topic')
DefaultTopic == "a general introductory topic"

\* except Exception as err: ... send_message(msg)
Catch(S, msg) == IF S.io.exc # "none" THEN Send([S EXCEPT !.io.exc = "none"], msg) ELSE S

\* user_data.get('lesson_sections', [])
Sections(S, c) ==
    IF S.us[c].lesson_sections = AbsentList THEN <<>> ELSE S.us[c].lesson_sections

\* a pop that takes the section served and the one after it
PopSection_two(S, c) ==
    [S EXCEPT !.us[c].lesson_sections =
        IF Len(Sections(S, c)) > 1 THEN Tail(Tail(Sections(S, c))) ELSE <<>>]

\* a pop that takes the section at the back of the queue
PopSection_last(S, c) ==
    [S EXCEPT !.us[c].lesson_sections =
        IF Sections(S, c) = <<>> THEN <<>>
        ELSE SubSeq(Sections(S, c), 1, Len(Sections(S, c)) - 1)]

\* lesson_sections.pop(0); user_data['lesson_sections'] = lesson_sections
PopSection(S, c) == [S EXCEPT !.us[c].lesson_sections = Tail(Sections(S, c))]

\* _handle_next_section_content: the pop comes before the try block; the
\* three stages each get self.lesson_history as history
handle_next_section_content(S, c) ==
    IF ~HasProfile(S, c) THEN {Raise(S, "KeyError")}
    ELSE IF Sections(S, c) = <<>> THEN {Send(S, "lesson_complete")}
    ELSE
      LET S1 == PopSection(S, c) IN
      IF S1.us[c].language = Absent \/ S1.us[c].level = Absent
      THEN {Raise(S1, "KeyError")}
      ELSE UNION {
        IF ~r1.ok THEN {Send(r1.S, "section_failed")}
        ELSE UNION {
          IF ~r2.ok THEN {Send(r2.S, "section_failed")}
          ELSE {
            IF ~r3.ok THEN Send(r3.S, "section_failed")
            ELSE Send([Send(r3.S, r3.val.text)
                         EXCEPT !.hist = Append(@, Turn("system", r3.val.text))],
                      "commands_hint")
            : r3 \in call(Send(r2.S, "almost_done"), r2.S.hist, TextReplies(S)) }
          : r2 \in call(Names(Send(r1.S, "halfway_done"), S1.us[c].level),
                        r1.S.hist, TextReplies(S)) }
        : r1 \in call(Names(S1, S1.gl.level), S1.hist, TextReplies(S)) }

\* _handle_new_lesson_command
handle_new_lesson_command(S, c) ==
    IF ~HasProfile(S, c) \/ S.us[c].language = Absent
    THEN {Send(S, "complete_setup_first")}
    ELSE IF S.us[c].level = Absent THEN {Raise(S, "KeyError")}
    ELSE
      LET name == IF S.us[c].next_lesson = Absent THEN DefaultTopic ELSE S.us[c].next_lesson
          S1 == Names([S EXCEPT !.hist = <<Turn("user", "/new")>>], S.gl.level)
      IN UNION {
        IF r.val = <<>> THEN {Send(r.S, "no_sections")}
        ELSE
          LET S2 == Send([r.S EXCEPT !.us[c].lesson_sections = r.val], "preparing")
              S3 == [S2 EXCEPT !.gl.seen_content = @ \cup {name},
                               !.us[c].seen_content = Append(@, name)]
          IN UNION {
            IF ~t.ok THEN {Send(t.S, "new_lesson_failed")}
            ELSE { Catch(X, "new_lesson_failed") :
                     X \in handle_next_section_content(
                             [t.S EXCEPT !.us[c].next_lesson = t.val.text], c) }
            : t \in call(S3, <<>>, TextReplies(S)) }
        : r \in text2list(S1, CurriculumReplies) }

\* a /next that asks the service before it looks at the queue
handle_next_section_command_eager(S, c) ==
    IF ~HasProfile(S, c) \/ S.us[c].lesson_sections = AbsentList
    THEN {Send(S, "start_lesson_first")}
    ELSE UNION {
      handle_next_section_content(
        [r.S EXCEPT !.hist = Append(@, Turn("user", "/next"))], c)
      : r \in call(S, <<>>, TextReplies(S)) }

\* _handle_next_section_command
handle_next_section_command(S, c) ==
    IF ~HasProfile(S, c) \/ S.us[c].lesson_sections = AbsentList
    THEN {Send(S, "start_lesson_first")}
    ELSE handle_next_section_content(
           [S EXCEPT !.hist = Append(@, Turn("user", "/next"))], c)

\* _start_lesson_flow: reads ['language'] and ['level'], then acts as /new
start_lesson_flow(S, c) ==
    IF ~HasProfile(S, c) \/ S.us[c].language = Absent \/ S.us[c].level = Absent
    THEN {Raise(S, "KeyError")}
    ELSE handle_new_lesson_command(Send(S, "starting_lesson"), c)

----------------------------------------------------------------------------
(* Setup flow *)

\* /setup creating the profile as an empty dict, without its 'step' key
handle_setup_command_nostep(S, c) ==
    { Register(Send([S EXCEPT !.us[c] = [NoProfile EXCEPT !.step = Absent], !.hist = <<>>],
                    "ask_language"), c, "language") }

\* a /setup that sets the step in the profile the chat already has
handle_setup_command_keep(S, c) ==
    { Register(Send([S EXCEPT !.us[c].step = "awaiting_language", !.hist = <<>>],
                    "ask_language"), c, "language") }

\* a /setup that makes a new mapping holding the chat's profile only
handle_setup_command_alone(S, c) ==
    { Register(Send([S EXCEPT !.us = [b \in Chats |-> IF b = c THEN FreshProfile ELSE NoProfile],
                              !.hist = <<>>],
                    "ask_language"), c, "language") }

\* _handle_setup_command: a fresh profile, the shared history cleared
handle_setup_command(S, c) ==
    { Register(Send([S EXCEPT !.us[c] = FreshProfile, !.hist = <<>>], "ask_language"),
               c, "language") }

\* the language step storing the user's words in place of the service's
process_language_input_raw(S, c, txt) ==
    IF Invalid(txt) THEN {Send(S, "provide_language")}
    ELSE UNION {
      IF ~r.ok THEN {Send(r.S, "trouble_language")}
      ELSE IF ~HasProfile(r.S, c)
      THEN {Send([r.S EXCEPT !.gl.language = txt], "trouble_language")}
      ELSE { Register(
               Send(Send([r.S EXCEPT !.gl.language = txt,
                                     !.us[c].language = txt,
                                     !.us[c].step = "awaiting_level"],
                         "great_language"), "ask_level"),
               c, "level") }
      : r \in call(S, <<>>, TextReplies(S)) }

\* _process_language_input
process_language_input(S, c, txt) ==
    IF Invalid(txt) THEN {Send(S, "provide_language")}
    ELSE UNION {
      IF ~r.ok THEN {Send(r.S, "trouble_language")}
      ELSE IF ~HasProfile(r.S, c)
      THEN {Send([r.S EXCEPT !.gl.language = r.val.text], "trouble_language")}
      ELSE { Register(
               Send(Send([r.S EXCEPT !.gl.language = r.val.text,
                                     !.us[c].language = r.val.text,
                                     !.us[c].step = "awaiting_level"],
                         "great_language"), "ask_level"),
               c, "level") }
      : r \in call(S, <<>>, TextReplies(S)) }

\* _process_level_input: the level is stored, then a second call infers the
\* seen content, then the cleaner runs, all in one try block
process_level_input(S, c, txt) ==
    IF Invalid(txt) THEN {Send(S, "provide_level")}
    ELSE UNION {
      IF ~r1.ok THEN {Send(r1.S, "trouble_level")}
      ELSE IF ~HasProfile(r1.S, c)
      THEN {Send([r1.S EXCEPT !.gl.level = r1.val.text], "trouble_level")}
      ELSE
        LET S1 == Send([r1.S EXCEPT !.gl.level = r1.val.text,
                                    !.us[c].level = r1.val.text], "understood_level") IN
        IF S1.us[c].language = Absent THEN {Send(S1, "trouble_level")}
        ELSE UNION {
          IF ~r2.ok THEN {Send(r2.S, "trouble_level")}
          ELSE { Register(
                   Send([S3 EXCEPT !.us[c].step = "awaiting_lesson_preference"],
                        "ask_lesson_preference"),
                   c, "lesson_preference")
                 : S3 \in clean_mastered(
                            [r2.S EXCEPT !.gl.seen_content = {r2.val.text},
                                         !.us[c].seen_content = <<r2.val.text>>], c) }
          : r2 \in call(S1, <<>>, TextReplies(S)) }
      : r1 \in call(S, <<>>, TextReplies(S)) }

\* _process_lesson_preference_input
process_lesson_preference_input(S, c, txt) ==
    IF Invalid(txt) THEN {Send(S, "provide_lesson_preference")}
    ELSE UNION {
      IF ~r.ok \/ ~HasProfile(r.S, c) THEN {Send(r.S, "trouble_lesson_preference")}
      ELSE { Register(
               Send(Send([r.S EXCEPT !.us[c].next_lesson = r.val.text,
                                     !.us[c].step = "awaiting_optional_questions_choice"],
                         "initial_lesson"), "ask_optional_questions"),
               c, "optional_questions_choice") }
      : r \in call(S, <<>>, TextReplies(S)) }

\* the choice handler without the call of _start_lesson_flow on 'no'
process_optional_questions_choice_nostart(S, c, txt) ==
    IF txt = EmptyText THEN {Raise(S, "AttributeError")}
    ELSE IF txt \in SlashTexts THEN {Send(S, "type_yes_or_no")}
    ELSE IF txt = "yes" THEN
      IF ~HasProfile(S, c) THEN {Raise(S, "KeyError")}
      ELSE { Register(Send([S EXCEPT !.us[c].step = "awaiting_learned_languages"],
                           "ask_learned_languages"),
                      c, "learned_languages") }
    ELSE IF txt = "no" THEN {Send(S, "skipping_questions")}
    ELSE { Register(Send(S, "invalid_choice"), c, "optional_questions_choice") }

\* _process_optional_questions_choice: message.text.lower() comes first and
\* nothing here is inside a try block
process_optional_questions_choice(S, c, txt) ==
    IF txt = EmptyText THEN {Raise(S, "AttributeError")}
    ELSE IF txt \in SlashTexts THEN {Send(S, "type_yes_or_no")}
    ELSE IF txt = "yes" THEN
      IF ~HasProfile(S, c) THEN {Raise(S, "KeyError")}
      ELSE { Register(Send([S EXCEPT !.us[c].step = "awaiting_learned_languages"],
                           "ask_learned_languages"),
                      c, "learned_languages") }
    ELSE IF txt = "no" THEN start_lesson_flow(Send(S, "skipping_questions"), c)
    ELSE { Register(Send(S, "invalid_choice"), c, "optional_questions_choice") }

\* _process_learned_languages_input
process_learned_languages_input(S, c, txt) ==
    IF Invalid(txt) THEN {Send(S, "provide_learned_languages")}
    ELSE UNION {
      IF ~HasProfile(r.S, c)
      THEN {Send([r.S EXCEPT !.gl.learned_languages = r.val], "trouble_learned_languages")}
      ELSE { Register(
               Send(Send([r.S EXCEPT !.gl.learned_languages = r.val,
                                     !.us[c].learned_languages = r.val,
                                     !.us[c].step = "awaiting_mastered_content"],
                         "got_learned_languages"), "ask_mastered_content"),
               c, "mastered_content") }
      : r \in text2list(S, LearnedReplies) }

\* _process_mastered_content_input: the prompt reads ['language'] before
\* text2list is called
process_mastered_content_input(S, c, txt) ==
    IF Invalid(txt) THEN {Send(S, "provide_mastered_content")}
    ELSE IF ~HasProfile(S, c) \/ S.us[c].language = Absent
    THEN {Send(S, "trouble_mastered_content")}
    ELSE UNION {
      { Register(
          Send(Send([S2 EXCEPT !.us[c].step = "awaiting_limitation"],
                    "mastered_added"), "ask_limitation"),
          c, "limitation")
        : S2 \in clean_mastered(
                   [r.S EXCEPT !.gl.mastered = @ \cup {r.val[i] : i \in 1..Len(r.val)},
                               !.us[c].mastered = @ \o r.val], c) }
      : r \in text2list(S, MasteredReplies) }

\* the limitation step followed by the lesson-preference question, as its
\* docstring still says
process_limitation_input_legacy(S, c, txt) ==
    IF Invalid(txt) THEN {Send(S, "provide_limitation")}
    ELSE UNION {
      IF ~r.ok THEN {Send(r.S, "trouble_limitation")}
      ELSE IF ~HasProfile(r.S, c)
      THEN {Send([r.S EXCEPT !.gl.limitation = r.val.text], "trouble_limitation")}
      ELSE { Register(
               Send(Send([r.S EXCEPT !.gl.limitation = r.val.text,
                                     !.us[c].limitation = r.val.text,
                                     !.us[c].step = "awaiting_lesson_preference"],
                         "limitation_noted"), "ask_lesson_preference"),
               c, "lesson_preference") }
      : r \in call(S, <<>>, TextReplies(S)) }

\* _process_limitation_input
process_limitation_input(S, c, txt) ==
    IF Invalid(txt) THEN {Send(S, "provide_limitation")}
    ELSE UNION {
      IF ~r.ok THEN {Send(r.S, "trouble_limitation")}
      ELSE IF ~HasProfile(r.S, c)
      THEN {Send([r.S EXCEPT !.gl.limitation = r.val.text], "trouble_limitation")}
      ELSE { Register(
               Send(Send([r.S EXCEPT !.gl.limitation = r.val.text,
                                     !.us[c].limitation = r.val.text,
                                     !.us[c].step = "awaiting_reminder_time"],
                         "limitation_noted"), "ask_reminder_time"),
               c, "reminder_time") }
      : r \in call(S, <<>>, TextReplies(S)) }

\* schedule.every().day.at(parsed_time).do(partial(_send_reminder_callback, chat_id));
\* a job first runs the next time the clock reaches its time
ReminderJob(c, t) == [kind |-> "reminder", chat |-> c, time |-> t, due |-> FALSE]

\* _process_reminder_time_input
process_reminder_time_input(S, c, txt) ==
    IF txt = EmptyText THEN {Raise(S, "AttributeError")}
    ELSE IF txt \in SlashTexts THEN {Send(S, "provide_reminder_time")}
    ELSE UNION {
      IF ~r.ok THEN {Send(r.S, "trouble_reminder")}
      ELSE IF r.val.text # "None" /\ ParseTime(r.val.text) = "ValueError"
      THEN {Register(Send(r.S, "invalid_time_format"), c, "reminder_time")}
      ELSE IF ~HasProfile(r.S, c)
      THEN {Send([r.S EXCEPT !.gl.reminder_time =
                     IF r.val.text = "None" THEN "None" ELSE ParseTime(r.val.text)],
                 "trouble_reminder")}
      ELSE
        LET S1 == IF r.val.text = "None"
                  THEN Send([r.S EXCEPT !.gl.reminder_time = "None",
                                        !.us[c].reminder_time = "None"], "reminder_skipped")
                  ELSE Send([r.S EXCEPT !.gl.reminder_time = ParseTime(r.val.text),
                                        !.us[c].reminder_time = ParseTime(r.val.text),
                                        !.jobs = Append(@, ReminderJob(c, ParseTime(r.val.text)))],
                            "reminder_set")
            S2 == Send([S1 EXCEPT !.us[c].step = "setup_complete"], "setup_complete")
        IN { Catch(X, "trouble_reminder") : X \in start_lesson_flow(S2, c) }
      : r \in call(S, <<>>, TimeReplies) }

----------------------------------------------------------------------------
(* Profile-edit commands, side commands and the default dispatcher *)

\* _handle_language_command .. _handle_reminder_command: each asks its
\* question and registers the setup processor of that question
EditProcessor ==
    [ language |-> "language", level |-> "level", limitation |-> "limitation",
      lesson |-> "lesson_preference", learned |-> "learned_languages",
      mastered |-> "mastered_content", reminder |-> "reminder_time" ]

handle_edit_command(S, c, cmd) ==
    { Register(Send(S, "ask_" \o cmd), c, EditProcessor[cmd]) }

\* _handle_more_details_command and _handle_better_explanation_command: the
\* command is appended to the history before the try block
handle_explain_command(S, c, cmd) ==
    IF S.hist = <<>> THEN {Send(S, "no_active_lesson")}
    ELSE
      LET S1 == [S EXCEPT !.hist = Append(@, Turn("user", cmd))] IN
      IF ~HasProfile(S1, c) THEN {Raise(S1, "KeyError")}
      ELSE {
        IF ~r.ok THEN Send(r.S, "explain_failed")
        ELSE Send([Send(r.S, r.val.text)
                     EXCEPT !.hist = Append(@, Turn("system", r.val.text))],
                  "commands_hint")
        : r \in call(Quotes(Names(S1, S1.gl.level), 2), S1.hist, TextReplies(S)) }

\* _handle_more_details_command
handle_more_details_command(S, c) == handle_explain_command(S, c, "/more")

\* _handle_better_explanation_command
handle_better_explanation_command(S, c) == handle_explain_command(S, c, "/better")

\* /question and /conversation without the check of lesson_history
handle_ask_command_unguarded(S, c, cmd, nxt) ==
    LET S1 == [S EXCEPT !.hist = Append(@, Turn("user", cmd))] IN
    IF ~HasProfile(S1, c) THEN {Raise(S1, "KeyError")}
    ELSE {
      IF ~r.ok THEN Send(r.S, "ask_failed")
      ELSE Register(Send(r.S, r.val.text), c, nxt)
      : r \in call(S1, <<>>, TextReplies(S)) }

\* _handle_question_command (cmd = "/question", then "user_question") and
\* _handle_conversation_command (cmd = "/conversation", then "conversation_role"):
\* one call without history, then the next message is awaited
handle_ask_command(S, c, cmd, nxt) ==
    IF S.hist = <<>> THEN {Send(S, "no_active_lesson")}
    ELSE
      LET S1 == [S EXCEPT !.hist = Append(@, Turn("user", cmd))] IN
      IF ~HasProfile(S1, c) THEN {Raise(S1, "KeyError")}
      ELSE {
        IF ~r.ok THEN Send(r.S, "ask_failed")
        ELSE Register(Send(r.S, r.val.text), c, nxt)
        : r \in call(S1, <<>>, TextReplies(S)) }

\* _handle_question_command
handle_question_command(S, c) == handle_ask_command(S, c, "/question", "user_question")

\* _handle_conversation_command
handle_conversation_command(S, c) == handle_ask_command(S, c, "/conversation", "conversation_role")

\* _process_user_question: the question is appended before the try block;
\* the prompt reads lesson_history[-3]
process_user_question(S, c, txt) ==
    IF Invalid(txt) THEN {Send(S, "invalid_question")}
    ELSE
      LET S1 == [S EXCEPT !.hist = Append(@, Turn("user", txt))] IN
      IF ~HasProfile(S1, c) THEN {Raise(S1, "KeyError")}
      ELSE IF Len(S1.hist) < 3 THEN {Send(S1, "answer_failed")}
      ELSE {
        IF ~r.ok THEN Send(r.S, "answer_failed")
        ELSE Send([Send(r.S, r.val.text)
                     EXCEPT !.hist = Append(@, Turn("system", r.val.text))],
                  "commands_hint")
        : r \in call(Quotes(S1, 3), S1.hist, TextReplies(S)) }

\* _process_conversation_role: the persona call has no history; the persona
\* turn is appended, then the opener is asked with the history
process_conversation_role(S, c, txt) ==
    IF Invalid(txt) THEN {Send(S, "invalid_role")}
    ELSE IF ~HasProfile(S, c) THEN {Raise(S, "KeyError")}
    ELSE UNION {
      IF ~p.ok THEN {Send(p.S, "conversation_failed")}
      ELSE
        LET S1 == [p.S EXCEPT !.hist = Append(@, Turn("user", "persona " \o p.val.text))] IN
        IF Len(S1.hist) < 3 THEN {Send(S1, "conversation_failed")}
        ELSE {
          IF ~r.ok THEN Send(r.S, "conversation_failed")
          ELSE Register(
                 [Send(Send(r.S, "conversation_started"), r.val.text)
                    EXCEPT !.hist = Append(@, Turn("system", r.val.text))],
                 c, "continue_conversation")
          : r \in call(Quotes(S1, 3), S1.hist, TextReplies(S)) }
      : p \in call(S, <<>>, TextReplies(S)) }

\* _continue_conversation
continue_conversation(S, c, txt) ==
    IF txt = EmptyText THEN {Raise(S, "AttributeError")}
    ELSE IF txt = "/exit" THEN {Send(S, "conversation_exited")}
    ELSE IF txt \in SlashTexts THEN {Send(S, "unknown_command")}
    ELSE IF ~HasProfile(S, c) THEN {Raise(S, "KeyError")}
    ELSE {
      IF ~r.ok THEN Send(r.S, "conversation_failed")
      ELSE Register(
             [Send(r.S, r.val.text) EXCEPT !.hist = Append(@, Turn("system", r.val.text))],
             c, "continue_conversation")
      : r \in call(S, S.hist, TextReplies(S)) }

\* _handle_data_command: the report is built from the fields of the bot
\* object, not from user_states[chat_id]
handle_data_command(S, c) == { [Send(S, "data") EXCEPT !.io.data = <<S.gl>>] }

\* _handle_all_messages
handle_all_messages(S, c) == {Send(S, "not_sure")}

----------------------------------------------------------------------------
(* Start-up: TelegramBot.__init__ and OpenaiApi.__init__ *)

\* a credential argument: None, a string that names no file (a key, or the
\* empty string), or the path of a file (holding a key, nothing, or blanks)
CredArgs == {"None", "literal", "empty", "key_file", "empty_file", "blank_file"}
\* an environment variable: not set, set to the empty string, set to a key
CredEnvs == {"unset", "empty", "set"}

\* os.path.isfile(arg)
IsFile(arg) == arg \in {"key_file", "empty_file", "blank_file"}
\* f.read()
FileText(arg) ==
    IF arg = "key_file" THEN "key" ELSE IF arg = "blank_file" THEN "blank" ELSE ""
\* str.strip()
Strip(text) == IF text = "blank" THEN "" ELSE text
\* the string given as argument
Literal(arg) == IF arg = "literal" THEN "key" ELSE ""

\* TelegramBot.__init__, lines 47-59: file (stripped), else string, else
\* os.environ.get("TELEGRAM_BOT_TOKEN", "") with ValueError when empty
ResolveToken(arg, env) ==
    IF arg # "None" /\ IsFile(arg) THEN [key |-> Strip(FileText(arg)), exc |-> "none"]
    ELSE IF arg # "None" THEN [key |-> Literal(arg), exc |-> "none"]
    ELSE IF env = "set" THEN [key |-> "key", exc |-> "none"]
    ELSE [key |-> "", exc |-> "ValueError"]

\* OpenaiApi.__init__, lines 16-21: file (as read), else string, else
\* os.environ["OPENAI_API_KEY"]
ResolveApiKey(arg, env) ==
    IF arg # "None" /\ IsFile(arg) THEN [key |-> FileText(arg), exc |-> "none"]
    ELSE IF arg # "None" THEN [key |-> Literal(arg), exc |-> "none"]
    ELSE IF env = "unset" THEN [key |-> "", exc |-> "KeyError"]
    ELSE [key |-> IF env = "set" THEN "key" ELSE "", exc |-> "none"]

\* telebot.TeleBot(token) and OpenAI(api_key=key) are library constructors:
\* they take a key, and may or may not refuse one that is empty or blank
LibraryAccepts(key) == IF key = "key" THEN {TRUE} ELSE {TRUE, FALSE}

NotBooted(ta, ma, te, me) ==
    [ telegram_arg |-> ta, model_arg |-> ma, telegram_env |-> te, model_env |-> me,
      pc |-> "start", telegram_api_key |-> Absent, api_key |-> Absent,
      bot |-> FALSE, client |-> FALSE, exc |-> "none" ]

\* __init__ as a whole: the token, self.bot, the state fields, then the
\* generation client with its key, then the handlers
Constructed(b) ==
    LET t == ResolveToken(b.telegram_arg, b.telegram_env) IN
    IF t.exc # "none" THEN {[b EXCEPT !.pc = "failed", !.exc = t.exc]}
    ELSE LET b1 == [b EXCEPT !.telegram_api_key = t.key] IN UNION {
      IF ~okb THEN {[b1 EXCEPT !.pc = "failed", !.exc = "LibraryError"]}
      ELSE
        LET b2 == [b1 EXCEPT !.bot = TRUE]
            k == ResolveApiKey(b.model_arg, b.model_env)
        IN IF k.exc # "none" THEN {[b2 EXCEPT !.pc = "failed", !.exc = k.exc]}
           ELSE LET b3 == [b2 EXCEPT !.api_key = k.key] IN
             { IF okc THEN [b3 EXCEPT !.client = TRUE, !.pc = "up"]
               ELSE [b3 EXCEPT !.pc = "failed", !.exc = "LibraryError"]
               : okc \in LibraryAccepts(k.key) }
      : okb \in LibraryAccepts(t.key) }

\* the outcome of TelegramBot("./bot/telegram_api_token.txt", "./llm/openai_api_key.txt")
Booted == CHOOSE b \in Constructed(NotBooted("key_file", "key_file", "unset", "unset")) : TRUE

Construct ==
    /\ boot.pc = "start"
    /\ boot' \in Constructed(boot)
    /\ last' = Io("-", "init", "")
    /\ UNCHANGED <<user_states, lesson_history, next_step, reminded_today, jobs, clock,
                   sched, sent_today, shared>>

----------------------------------------------------------------------------
(* Reminder scheduler *)

\* schedule.every().day.at("00:00").do(self._reset_reminded_flag)
ResetJob == [kind |-> "reset", chat |-> "-", time |-> "T0", due |-> FALSE]

NextTime == [T0 |-> "T1", T1 |-> "T2", T2 |-> "T0"]

Idle == [pc |-> "idle", chat |-> "-", job |-> 0]

DueJobs == {i \in 1..Len(jobs) : jobs[i].due}

\* schedule.run_pending() runs the due jobs in the order of their time, and
\* jobs of one time in the order they were scheduled
FirstDue == CHOOSE i \in DueJobs : \A j \in DueJobs : i <= j

\* user_data.get('learned_languages', ['English'])[0] exists
ReminderPromptBuilds(c) == user_states[c].learned_languages # <<>>

\* the io record of a scheduler step
SchedIo(c, h, calls, failed, msgs) ==
    [Io(c, h, "") EXCEPT !.calls = calls, !.failed = failed, !.msgs = msgs]

\* time passes: the jobs of the new time of day become due
Tick ==
    /\ sched.pc = "idle"
    /\ DueJobs = {}
    /\ clock' = NextTime[clock]
    /\ jobs' = [i \in 1..Len(jobs) |-> [jobs[i] EXCEPT !.due = (jobs[i].time = NextTime[clock])]]
    /\ last' = Io("-", "tick", "")
    /\ UNCHANGED <<user_states, lesson_history, next_step, reminded_today, sched, sent_today, shared, boot>>

\* _reset_reminded_flag: every key of reminded_today is set to False; the
\* calendar day of the sent_today count starts here
ResetRemindedFlag ==
    /\ sched.pc = "idle"
    /\ DueJobs # {}
    /\ jobs[FirstDue].kind = "reset"
    /\ reminded_today' = [c \in Chats |-> IF reminded_today[c] = "absent" THEN "absent" ELSE "false"]
    /\ sent_today' = [c \in Chats |-> 0]
    /\ jobs' = [jobs EXCEPT ![FirstDue].due = FALSE]
    /\ last' = SchedIo("-", "reset_reminded_flag", 0, 0, <<>>)
    /\ UNCHANGED <<user_states, lesson_history, next_step, clock, sched, shared, boot>>

\* a callback without the guard
AlreadyReminded_never(c) == FALSE

\* the guard of the callback: reminded_today.get(chat_id, False)
AlreadyReminded(c) == reminded_today[c] = "true"

\* _send_reminder_callback up to the generation request: the guard, the
\* profile reads and the prompt (which reads user_learned_languages[0])
SendReminderBegin ==
    /\ sched.pc = "idle"
    /\ DueJobs # {}
    /\ jobs[FirstDue].kind = "reminder"
    /\ LET c == jobs[FirstDue].chat IN
       IF AlreadyReminded(c) \/ ~ReminderPromptBuilds(c)
       THEN /\ jobs' = [jobs EXCEPT ![FirstDue].due = FALSE]
            /\ last' = SchedIo(c, "send_reminder_callback", 0, 0, <<>>)
            /\ UNCHANGED sched
       ELSE /\ sched' = [pc |-> "calling", chat |-> c, job |-> FirstDue]
            /\ last' = Io(c, "send_reminder_callback", "")
            /\ UNCHANGED jobs
    /\ UNCHANGED <<user_states, lesson_history, next_step, reminded_today, clock, sent_today, shared, boot>>

\* the request returns: on success the reminder is sent and the flag set
SendReminderEnd ==
    /\ sched.pc = "calling"
    /\ \E ok \in BOOLEAN :
         /\ IF ok
            THEN /\ sent_today' = [sent_today EXCEPT ![sched.chat] = @ + 1]
                 /\ reminded_today' = [reminded_today EXCEPT ![sched.chat] = "true"]
                 /\ last' = SchedIo(sched.chat, "send_reminder_callback", 1, 0, <<"reminder">>)
            ELSE /\ UNCHANGED <<sent_today, reminded_today>>
                 /\ last' = [SchedIo(sched.chat, "send_reminder_callback", 1, 1, <<>>)
                               EXCEPT !.down = 1]
    /\ jobs' = [jobs EXCEPT ![sched.job].due = FALSE]
    /\ sched' = Idle
    /\ UNCHANGED <<user_states, lesson_history, next_step, clock, shared, boot>>

----------------------------------------------------------------------------
(* Message dispatch *)

\* what a handler run may leave within the bounds of the model
WithinBounds(S) ==
    /\ Len(S.hist) <= MaxHist
    /\ Len(S.jobs) <= MaxJobs
    /\ \A c \in Chats : Len(S.us[c].seen_content) <= MaxContent
    /\ \A c \in Chats : Len(S.us[c].mastered) <= MaxContent

Commit(S) ==
    /\ WithinBounds(S)
    /\ user_states' = S.us
    /\ lesson_history' = S.hist
    /\ next_step' = S.pend
    /\ reminded_today' = S.rem
    /\ jobs' = S.jobs
    /\ shared' = S.gl
    /\ last' = S.io
    /\ UNCHANGED <<clock, sched, sent_today, boot>>

\* a message for which a next-step handler waits goes to that handler and to
\* nothing else; the handler is consumed
StepRun(V, c, h, txt) == [Cur(V, c, h, txt) EXCEPT !.pend[c] = "none"]

\* a command reaches its handler only when no next-step handler waits
NoStep(c) == next_step[c] = "none"

SetupCommand(c) ==
    /\ NoStep(c)
    /\ \E S \in handle_setup_command(Cur({}, c, "handle_setup_command", "/setup"), c) : Commit(S)

EditCommand(c, cmd) ==
    /\ NoStep(c)
    /\ \E S \in handle_edit_command(Cur({}, c, "handle_edit_command", "/" \o cmd), c, cmd) : Commit(S)

NewLessonCommand(V, c) ==
    /\ NoStep(c)
    /\ \E S \in handle_new_lesson_command(Cur(V, c, "handle_new_lesson_command", "/new"), c) : Commit(S)

NextSectionCommand(V, c) ==
    /\ NoStep(c)
    /\ \E S \in handle_next_section_command(Cur(V, c, "handle_next_section_command", "/next"), c) : Commit(S)

MoreDetailsCommand(V, c) ==
    /\ NoStep(c)
    /\ \E S \in handle_more_details_command(Cur(V, c, "handle_more_details_command", "/more"), c) : Commit(S)

BetterExplanationCommand(V, c) ==
    /\ NoStep(c)
    /\ \E S \in handle_better_explanation_command(Cur(V, c, "handle_better_explanation_command", "/better"), c) : Commit(S)

QuestionCommand(V, c) ==
    /\ NoStep(c)
    /\ \E S \in handle_question_command(Cur(V, c, "handle_question_command", "/question"), c) : Commit(S)

ConversationCommand(V, c) ==
    /\ NoStep(c)
    /\ \E S \in handle_conversation_command(Cur(V, c, "handle_conversation_command", "/conversation"), c) : Commit(S)

DataCommand(c) ==
    /\ NoStep(c)
    /\ \E S \in handle_data_command(Cur({}, c, "handle_data_command", "/data"), c) : Commit(S)

AllMessages(c, txt) ==
    /\ NoStep(c)
    /\ txt # EmptyText
    /\ \E S \in handle_all_messages(Cur({}, c, "handle_all_messages", txt), c) : Commit(S)

LanguageInput(V, c, txt) ==
    /\ next_step[c] = "language"
    /\ \E S \in process_language_input(StepRun(V, c, "process_language_input", txt), c, txt) : Commit(S)

LevelInput(V, c, txt) ==
    /\ next_step[c] = "level"
    /\ \E S \in process_level_input(StepRun(V, c, "process_level_input", txt), c, txt) : Commit(S)

LessonPreferenceInput(V, c, txt) ==
    /\ next_step[c] = "lesson_preference"
    /\ \E S \in process_lesson_preference_input(StepRun(V, c, "process_lesson_preference_input", txt), c, txt) : Commit(S)

OptionalQuestionsChoice(V, c, txt) ==
    /\ next_step[c] = "optional_questions_choice"
    /\ \E S \in process_optional_questions_choice(StepRun(V, c, "process_optional_questions_choice", txt), c, txt) : Commit(S)

LearnedLanguagesInput(V, c, txt) ==
    /\ next_step[c] = "learned_languages"
    /\ \E S \in process_learned_languages_input(StepRun(V, c, "process_learned_languages_input", txt), c, txt) : Commit(S)

MasteredContentInput(V, c, txt) ==
    /\ next_step[c] = "mastered_content"
    /\ \E S \in process_mastered_content_input(StepRun(V, c, "process_mastered_content_input", txt), c, txt) : Commit(S)

LimitationInput(V, c, txt) ==
    /\ next_step[c] = "limitation"
    /\ \E S \in process_limitation_input(StepRun(V, c, "process_limitation_input", txt), c, txt) : Commit(S)

ReminderTimeInput(V, c, txt) ==
    /\ next_step[c] = "reminder_time"
    /\ \E S \in process_reminder_time_input(StepRun(V, c, "process_reminder_time_input", txt), c, txt) : Commit(S)

UserQuestion(V, c, txt) ==
    /\ next_step[c] = "user_question"
    /\ \E S \in process_user_question(StepRun(V, c, "process_user_question", txt), c, txt) : Commit(S)

ConversationInput(V, c, txt) ==
    \E S \in (IF next_step[c] = "conversation_role"
              THEN process_conversation_role(StepRun(V, c, "process_conversation_role", txt), c, txt)
              ELSE IF next_step[c] = "continue_conversation"
              THEN continue_conversation(StepRun(V, c, "continue_conversation", txt), c, txt)
              ELSE {}) : Commit(S)

----------------------------------------------------------------------------
(* Specifications: the bot under different users *)

\* the bot object as __init__ leaves it, before run() starts the threads
Fresh ==
    /\ user_states = [c \in Chats |-> NoProfile]
    /\ lesson_history = <<>>
    /\ next_step = [c \in Chats |-> "none"]
    /\ reminded_today = [c \in Chats |-> "absent"]
    /\ jobs = <<ResetJob>>
    /\ clock = "T0"
    /\ sched = Idle
    /\ sent_today = [c \in Chats |-> 0]
    /\ shared = InitShared
    /\ last = Io("-", "init", "")

\* the bot constructed from two key files, as main.py does
Init == Fresh /\ boot = Booted

Scheduler == Tick \/ ResetRemindedFlag \/ SendReminderBegin \/ SendReminderEnd

\* every chat sends anything at any time, the scheduler runs
Next ==
    \/ \E c \in Chats :
         \/ SetupCommand(c)
         \/ \E cmd \in EditCommands : EditCommand(c, cmd)
         \/ NewLessonCommand(Vals, c)
         \/ NextSectionCommand(Vals, c)
         \/ MoreDetailsCommand(Vals, c)
         \/ BetterExplanationCommand(Vals, c)
         \/ QuestionCommand(Vals, c)
         \/ ConversationCommand(Vals, c)
         \/ DataCommand(c)
         \/ \E txt \in Texts :
              \/ AllMessages(c, txt)
              \/ LanguageInput(Vals, c, txt)
              \/ LevelInput(Vals, c, txt)
              \/ LessonPreferenceInput(Vals, c, txt)
              \/ OptionalQuestionsChoice(Vals, c, txt)
              \/ LearnedLanguagesInput(Vals, c, txt)
              \/ MasteredContentInput(Vals, c, txt)
              \/ LimitationInput(Vals, c, txt)
              \/ ReminderTimeInput(Vals, c, txt)
              \/ UserQuestion(Vals, c, txt)
              \/ ConversationInput(Vals, c, txt)
    \/ Scheduler

Spec == Init /\ [][Next]_vars

\* the messages a setup step may get: none of them is "/exit"
StepTexts == Texts \ {"/exit"}

\* the one text the service answers with in the narrower specifications
OneVal == {"v1"}

\* one chat goes through setup, any number of times, with any answers; the
\* service has two texts to choose from for the language and the level
NextSetup ==
    \E c \in {"A"} :
       \/ SetupCommand(c)
       \/ \E txt \in StepTexts :
            \/ AllMessages(c, txt)
            \/ LanguageInput(Vals, c, txt)
            \/ LevelInput(Vals, c, txt)
            \/ LessonPreferenceInput(OneVal, c, txt)
            \/ OptionalQuestionsChoice(OneVal, c, txt)
            \/ LearnedLanguagesInput(OneVal, c, txt)
            \/ MasteredContentInput(OneVal, c, txt)
            \/ LimitationInput(OneVal, c, txt)
            \/ ReminderTimeInput(OneVal, c, txt)

SpecSetup == Init /\ [][NextSetup]_vars

\* a valid answer to each of the first three questions
SetupAnswers(c) ==
    \/ LanguageInput(OneVal, c, "text")
    \/ LevelInput(OneVal, c, "text")
    \/ LessonPreferenceInput(OneVal, c, "text")

\* one chat sets up, skips the optional questions and takes lessons
NextLesson ==
    \E c \in {"A"} :
       \/ SetupCommand(c)
       \/ SetupAnswers(c)
       \/ OptionalQuestionsChoice(OneVal, c, "no")
       \/ NewLessonCommand(OneVal, c)
       \/ NextSectionCommand(OneVal, c)

SpecLesson == Init /\ [][NextLesson]_vars

\* one chat sets up, skips the optional questions and uses the side commands
NextSide ==
    \E c \in {"A"} :
       \/ SetupCommand(c)
       \/ SetupAnswers(c)
       \/ OptionalQuestionsChoice(OneVal, c, "no")
       \/ MoreDetailsCommand(OneVal, c)
       \/ BetterExplanationCommand(OneVal, c)
       \/ QuestionCommand(OneVal, c)
       \/ ConversationCommand(OneVal, c)
       \/ \E txt \in {"text", "/x"} :
            \/ UserQuestion(OneVal, c, txt)
            \/ ConversationInput(OneVal, c, txt)

SpecSide == Init /\ [][NextSide]_vars

\* a chat sets its reminder time with /reminder, again and again, with
\* or without a profile and a list of known languages (/setup, then a
\* command in place of the language; /learned, then a command in place of
\* the mastered content), and the scheduler thread runs beside it
NextReminder ==
    \/ \E c \in {"A"} :
         \/ SetupCommand(c)
         \/ LanguageInput(OneVal, c, "/x")
         \/ \E cmd \in {"learned", "reminder"} : EditCommand(c, cmd)
         \/ LearnedLanguagesInput(OneVal, c, "text")
         \/ MasteredContentInput(OneVal, c, "/x")
         \/ ReminderTimeInput(OneVal, c, "text")
    \/ Scheduler

SpecReminder == Init /\ [][NextReminder]_vars

\* one chat answers every setup question, the optional ones too, any number
\* of times, and the scheduler thread runs beside it
NextDaily ==
    \/ \E c \in {"A"} :
         \/ SetupCommand(c)
         \/ SetupAnswers(c)
         \/ OptionalQuestionsChoice(OneVal, c, "yes")
         \/ LearnedLanguagesInput(OneVal, c, "text")
         \/ MasteredContentInput(OneVal, c, "text")
         \/ LimitationInput(OneVal, c, "text")
         \/ ReminderTimeInput(OneVal, c, "text")
    \/ Scheduler

SpecDaily == Init /\ [][NextDaily]_vars

\* the program is started with any arguments in any environment
InitStartup ==
    /\ Fresh
    /\ boot \in {NotBooted(ta, ma, te, me) :
                  ta \in CredArgs, ma \in CredArgs, te \in CredEnvs, me \in CredEnvs}

NextStartup == Construct

SpecStartup == InitStartup /\ [][NextStartup]_vars

\* chat "A" sets up, skips the optional questions and starts its lesson;
\* both chats send the lesson commands
NextShared ==
    \/ SetupCommand("A")
    \/ SetupAnswers("A")
    \/ OptionalQuestionsChoice(OneVal, "A", "no")
    \/ \E c \in Chats :
         \/ NextSectionCommand(OneVal, c)
         \/ MoreDetailsCommand(OneVal, c)
         \/ BetterExplanationCommand(OneVal, c)
         \/ QuestionCommand(OneVal, c)
         \/ ConversationCommand(OneVal, c)

SpecShared == Init /\ [][NextShared]_vars

\* what the service makes of the answers of each chat: the two chats say
\* different things
Said(c) == IF c = "A" THEN {"v1"} ELSE {"v2"}

\* two chats give their language and level, each at its own pace; chat "A"
\* leaves the lesson-preference question with a command, starts lessons and
\* asks for its data
NextTwo ==
    \/ \E c \in Chats :
         \/ SetupCommand(c)
         \/ LanguageInput(Said(c), c, "text")
         \/ LevelInput(Said(c), c, "text")
    \/ LessonPreferenceInput(Said("A"), "A", "/x")
    \/ NewLessonCommand(Said("A"), "A")
    \/ DataCommand("A")

SpecTwo == Init /\ [][NextTwo]_vars

----------------------------------------------------------------------------
(* Claims about the setup flow, under SpecSetup *)

Range(q) == {q[i] : i \in 1..Len(q)}

SetupProcessors ==
    { "process_language_input", "process_level_input", "process_lesson_preference_input",
      "process_optional_questions_choice", "process_learned_languages_input",
      "process_mastered_content_input", "process_limitation_input",
      "process_reminder_time_input" }

\* the handler run of this step sent "Starting your lesson on: ..."
LessonStarted(io) == "starting_lesson" \in Range(io.msgs)



OptionalSteps ==
    { "awaiting_learned_languages", "awaiting_mastered_content",
      "awaiting_limitation", "awaiting_reminder_time" }

\* the moves of current_step through the optional branch
OptionalMoves ==
    { <<"awaiting_optional_questions_choice", "awaiting_learned_languages">>,
      <<"awaiting_learned_languages", "awaiting_mastered_content">>,
      <<"awaiting_mastered_content", "awaiting_limitation">>,
      <<"awaiting_limitation", "awaiting_reminder_time">>,
      <<"awaiting_reminder_time", "setup_complete">> }

C7_CleanerNoOp ==
    (last.cleaned # AbsentList /\ LessonErrors([us |-> user_states], last.chat) = <<>>)
        => user_states[last.chat].mastered = last.cleaned

\* C8: a setup step in which a generation call raised leaves the chat's
\* profile, current_step included, as it was.
C8_NoPartialCommit ==
    [][ (last'.handler \in SetupProcessors /\ last'.failed > 0)
           => user_states' = user_states ]_vars


----------------------------------------------------------------------------
(* The section queue *)

\* the chat's queue before and after the step
QueueBefore(c) == Sections([us |-> user_states], c)
QueueAfter(c) == Sections([us |-> user_states'], c)

\* the handlers that fetch a curriculum
NewLessonHandlers ==
    {"handle_new_lesson_command", "process_optional_questions_choice",
     "process_reminder_time_input"}

\* the queues a curriculum just fetched may leave: all of it, or all but the
\* section served first
FreshQueues ==
    UNION { {ParseList(r), IF ParseList(r) = <<>> THEN <<>> ELSE Tail(ParseList(r))} :
            r \in CurriculumReplies }

C4_EmptyQueueNotice ==
    [][ \A c \in Chats :
          (last'.chat = c /\ last'.handler = "handle_next_section_command") =>
             IF ~HasProfile([us |-> user_states], c) \/ user_states[c].lesson_sections = AbsentList
             THEN /\ last'.msgs = <<"start_lesson_first">>
                  /\ last'.calls = 0
                  /\ user_states' = user_states
             ELSE IF QueueBefore(c) = <<>>
             THEN /\ last'.msgs = <<"lesson_complete">>
                  /\ last'.calls = 0
                  /\ user_states' = user_states
                  /\ QueueAfter(c) = <<>>
             ELSE Len(QueueAfter(c)) = Len(QueueBefore(c)) - 1
      ]_vars

\* after /new and three /next the fourth /next only gets the notice
C4_Witness ==
    /\ last.handler = "handle_next_section_command"
    /\ last.msgs = <<"lesson_complete">>
    /\ last.calls = 0
    /\ user_states[last.chat].lesson_sections = <<>>
    /\ lesson_history = <<Turn("user", "/new"), Turn("user", "/next"), Turn("user", "/next"),
                          Turn("user", "/next"), Turn("user", "/next")>>

\* C9: a /next of which a generation stage fails sends the error message and
\* leaves the chat's queue and the lesson history as they were before it.
C9_FailedSectionNoCommit ==
    [][ \A c \in Chats :
          (last'.chat = c /\ last'.handler = "handle_next_section_command" /\ last'.failed > 0) =>
             /\ "section_failed" \in Range(last'.msgs)
             /\ user_states'[c].lesson_sections = user_states[c].lesson_sections
             /\ lesson_history' = lesson_history
      ]_vars

----------------------------------------------------------------------------
(* Side commands *)

SideCommands ==
    {"handle_more_details_command", "handle_better_explanation_command",
     "handle_question_command", "handle_conversation_command"}

SidePhases == {"process_user_question", "process_conversation_role", "continue_conversation"}

\* C5: a side command that finds lesson_history empty answers with the
\* start-a-lesson message alone, makes no generation call and changes nothing.
C5_NoLessonNoCall ==
    [][ (last'.handler \in SideCommands /\ lesson_history = <<>>) =>
          /\ last'.msgs = <<"no_active_lesson">>
          /\ last'.calls = 0
          /\ user_states' = user_states
          /\ lesson_history' = lesson_history
          /\ next_step' = next_step
          /\ UNCHANGED <<reminded_today, jobs>>
      ]_vars

\* /conversation is refused for a chat that has a profile and no lesson
C5_Witness ==
    /\ last.handler = "handle_conversation_command"
    /\ last.msgs = <<"no_active_lesson">>
    /\ lesson_history = <<>>
    /\ user_states[last.chat].language # Absent

\* C10: a side command, or a later phase of one, whose generation call fails
\* sends a retry message and leaves lesson_history and every profile as they
\* were before the message arrived.
C10_FailedSideNoCommit ==
    [][ (last'.handler \in SideCommands \cup SidePhases /\ last'.failed > 0) =>
          /\ last'.msgs # <<>>
          /\ lesson_history' = lesson_history
          /\ user_states' = user_states
      ]_vars

----------------------------------------------------------------------------
(* Reminders *)

\* C6: between two runs of the daily reset no chat is sent more than one
\* reminder.
C6_OneReminderPerDay == \A c \in Chats : sent_today[c] <= 1

ReminderJobsOf(c) == {i \in 1..Len(jobs) : jobs[i].kind = "reminder" /\ jobs[i].chat = c}

\* the chat has two reminder jobs; one has sent today's reminder and the
\* callback of the other has just returned without a call
C6_Witness ==
    /\ last.handler = "send_reminder_callback"
    /\ last.calls = 0
    /\ last.chat \in Chats
    /\ Cardinality(ReminderJobsOf(last.chat)) = 2
    /\ sent_today[last.chat] = 1
    /\ reminded_today[last.chat] = "true"
    /\ sched.pc = "idle"

----------------------------------------------------------------------------
(* Failures of the generation service *)

\* the messages that tell the user something went wrong and to try again
RetryMessages ==
    {"trouble_language", "trouble_level", "trouble_lesson_preference",
     "trouble_learned_languages", "trouble_mastered_content", "trouble_limitation",
     "trouble_reminder", "no_sections", "new_lesson_failed", "section_failed",
     "explain_failed", "ask_failed", "answer_failed", "conversation_failed"}

\* C11: a run in which a generation call raised returns normally, and where
\* a user is waiting (every handler but the reminder callback) it has sent a
\* retry message.
C11_FailureSurfaced ==
    [][ last'.failed > 0 =>
          /\ last'.exc = "none"
          /\ last'.handler # "send_reminder_callback" =>
               Range(last'.msgs) \cap RetryMessages # {}
      ]_vars

----------------------------------------------------------------------------
(* Commands before their prerequisites *)

\* the chat has no profile, or its setup stopped before the lesson preference
\* was answered
SetupUnfinished(c) ==
    \/ ~HasProfile([us |-> user_states], c)
    \/ user_states[c].step \in
         {"awaiting_language", "awaiting_level", "awaiting_lesson_preference"}

\* C12: /new from a chat whose setup is not finished is answered with the
\* instruction to run setup alone, without a generation call, without an
\* exception and without a change of state.
C12_NewNeedsSetup ==
    [][ \A c \in Chats :
          (last'.chat = c /\ last'.handler = "handle_new_lesson_command" /\ SetupUnfinished(c)) =>
             /\ last'.msgs = <<"complete_setup_first">>
             /\ last'.calls = 0
             /\ last'.exc = "none"
             /\ user_states' = user_states
             /\ lesson_history' = lesson_history
      ]_vars

LessonCommands == {"handle_next_section_command"} \cup SideCommands

\* the chat has no profile, or a profile that never held a curriculum: no
\* lesson content was ever served to it
NothingServed(c) ==
    \/ ~HasProfile([us |-> user_states], c)
    \/ user_states[c].lesson_sections = AbsentList

\* C13: a lesson command from a chat with no profile, or to which no lesson
\* content was served, gets one message naming the command to run first,
\* with no generation call and no exception, whatever the other chats did.
C13_LessonCommandNeedsLesson ==
    [][ \A c \in Chats :
          (last'.chat = c /\ last'.handler \in LessonCommands /\ NothingServed(c)) =>
             /\ last'.msgs \in {<<"start_lesson_first">>, <<"no_active_lesson">>}
             /\ last'.calls = 0
             /\ last'.exc = "none"
      ]_vars

----------------------------------------------------------------------------
(* A new lesson *)

\* the topic a new lesson is about: user_data.get('next_lesson', default)
LessonTopic(c) ==
    IF user_states[c].next_lesson = Absent THEN DefaultTopic ELSE user_states[c].next_lesson

\* /new has stored a curriculum, and the service answered every request that
\* reached it
NewLessonServed(c) ==
    /\ last'.chat = c
    /\ last'.handler = "handle_new_lesson_command"
    /\ "preparing" \in Range(last'.msgs)
    /\ last'.down = 0

\* what such a /new leaves in the profile: the curriculum without its first
\* section, the topic appended to seen_content, the following topic named
NewLessonProfile(c) ==
    /\ lesson_history'[1] = Turn("user", "/new")
    /\ \E r \in CurriculumReplies :
         ParseList(r) # <<>> /\ QueueAfter(c) = Tail(ParseList(r))
    /\ user_states'[c].seen_content = Append(user_states[c].seen_content, LessonTopic(c))
    /\ Len(last'.replies) >= 2
    /\ user_states'[c].next_lesson = last'.replies[2]

\* C14: after a /new with a curriculum of n >= 1 sections, for which the
\* service answered every request, the history starts afresh with the
\* command, the queue holds the last n - 1 sections, seen_content has the
\* topic appended, next_lesson is the topic the service named, and the first
\* section's content has been sent, followed by the list of commands.
C14_NewLessonEffect ==
    [][ \A c \in Chats : NewLessonServed(c) =>
          /\ NewLessonProfile(c)
          /\ "commands_hint" \in Range(last'.msgs)
          /\ lesson_history' = <<Turn("user", "/new"), Turn("system", last'.replies[Len(last'.replies)])>>
      ]_vars

----------------------------------------------------------------------------
(* The first two setup steps *)

\* the run of handler h on a valid answer of chat c in which no call raised
AnsweredBy(h, c) ==
    /\ last'.chat = c
    /\ last'.handler = h
    /\ ~Invalid(last'.text)
    /\ last'.failed = 0

----------------------------------------------------------------------------
(* Invalid answers *)

\* the handlers that wait for an answer in the user's own words
FreeTextHandlers ==
    SetupProcessors \cup {"process_user_question", "process_conversation_role"}

\* C16: a handler that waits for free text and gets a message without text,
\* or one that starts with '/', sends one rejection message, makes no
\* generation call, raises nothing and leaves every profile and the lesson
\* history as they were.
C16_InvalidInputRejected ==
    [][ (last'.handler \in FreeTextHandlers /\ Invalid(last'.text)) =>
          /\ Len(last'.msgs) = 1
          /\ last'.calls = 0
          /\ last'.exc = "none"
          /\ user_states' = user_states
          /\ lesson_history' = lesson_history
      ]_vars

\* the name under which each setup processor is registered as next step
StepOf ==
    [ process_language_input |-> "language", process_level_input |-> "level",
      process_lesson_preference_input |-> "lesson_preference",
      process_optional_questions_choice |-> "optional_questions_choice",
      process_learned_languages_input |-> "learned_languages",
      process_mastered_content_input |-> "mastered_content",
      process_limitation_input |-> "limitation",
      process_reminder_time_input |-> "reminder_time" ]

\* C17: after a setup step has rejected an invalid answer, or a generation
\* call of it has raised, the same step waits for the chat's next message.
C17_StepStaysPending ==
    [][ \A c \in Chats :
          (/\ last'.chat = c
           /\ last'.handler \in SetupProcessors
           /\ Invalid(last'.text) \/ last'.failed > 0) =>
             next_step'[c] = StepOf[last'.handler]
      ]_vars

----------------------------------------------------------------------------
(* List extraction in setup *)

ListSteps == {"process_learned_languages_input", "process_mastered_content_input"}

\* C18: when a list extraction of the learned-languages or mastered-content
\* step fails, by a raising call or by a reply in which no list is found,
\* the user gets a retry message, the step does not advance and the lists
\* of the profile are not overwritten.
C18_ListFailureKeepsProfile ==
    [][ \A c \in Chats :
          (/\ last'.chat = c
           /\ last'.handler \in ListSteps
           /\ ~Invalid(last'.text)
           /\ last'.failed > 0 \/ last'.unparsed > 0) =>
             /\ Range(last'.msgs) \cap RetryMessages # {}
             /\ user_states'[c].step = user_states[c].step
             /\ user_states'[c].learned_languages = user_states[c].learned_languages
             /\ user_states'[c].mastered = user_states[c].mastered
      ]_vars

----------------------------------------------------------------------------
(* The daily reminder *)

\* C19: when a chat's reminder job has run, the chat's flag was not set
\* when it started and no call or send failed, one reminder has been sent
\* and the flag is set.
C19_ReminderSent ==
    [][ (/\ last'.handler = "send_reminder_callback"
         /\ sched'.pc = "idle"
         /\ reminded_today[last'.chat] # "true"
         /\ last'.failed = 0) =>
           /\ last'.msgs = <<"reminder">>
           /\ reminded_today'[last'.chat] = "true"
      ]_vars

----------------------------------------------------------------------------
(* Conversation mode *)

\* C20: a valid persona answer for which the service answers every request
\* opens the conversation (the opener is sent, the conversation handler
\* waits); from then on every message but the exit token is a turn, which
\* gets a follow-up when the service answers, and leaves the conversation
\* handler waiting; the exit token ends the mode and leaves no handler
\* waiting, so that commands are dispatched again.
C20_ConversationTurns ==
    [][ \A c \in Chats : last'.chat = c =>
          /\ (/\ last'.handler = "process_conversation_role"
              /\ ~Invalid(last'.text)
              /\ last'.down = 0
              /\ last'.exc = "none") =>
                /\ "conversation_started" \in Range(last'.msgs)
                /\ next_step'[c] = "continue_conversation"
          /\ (last'.handler = "continue_conversation" /\ last'.text # "/exit") =>
                /\ next_step'[c] = "continue_conversation"
                /\ last'.down = 0 => Len(last'.replies) = 1 /\ last'.replies[1] \in Range(last'.msgs)
          /\ (last'.handler = "continue_conversation" /\ last'.text = "/exit") =>
                /\ next_step'[c] = "none"
                /\ last'.msgs = <<"conversation_exited">>
      ]_vars

----------------------------------------------------------------------------
(* Isolation of the chats *)

\* the history the handlers of chat c read and append to: self.lesson_history
HistoryOf(c) == lesson_history

\* a chat whose lesson has started
InLesson(c) == user_states[c].step # "NONE" /\ user_states[c].lesson_sections # AbsentList

\* C21: handling a message of one chat leaves the lesson history of every
\* other chat that is in a lesson as it was.
C21_HistoryPerChat ==
    [][ \A c, b \in Chats :
          (last'.chat = c /\ b # c /\ InLesson(b)) => HistoryOf(b)' = HistoryOf(b) ]_vars

----------------------------------------------------------------------------
(* The setup step of a profile *)

\* C22: every chat either has no profile at all or has a profile whose step
\* is one of the nine enumerated values.
C22_StepEnumerated ==
    \A c \in Chats : user_states[c] = NoProfile \/ user_states[c].step \in Steps

\* a chat has answered the last setup question: its step is the ninth value
\* and its reminder time is stored
C22_Witness ==
    \E c \in Chats :
       /\ user_states[c].step = "setup_complete"
       /\ user_states[c].reminder_time \in Times
       /\ last.handler = "process_reminder_time_input"

----------------------------------------------------------------------------
(* Start-up *)

\* a non-empty value can be had from the argument or from the variable
Resolvable(arg, env) == arg \in {"literal", "key_file"} \/ env = "set"

\* C23: when the constructor has run and one of the two credentials could
\* not be resolved to a non-empty value, start-up has failed with an error
\* and neither the bot nor the generation client exists.
C23_MissingCredentialFatal ==
    (/\ boot.pc # "start"
     /\ \/ ~Resolvable(boot.telegram_arg, boot.telegram_env)
        \/ ~Resolvable(boot.model_arg, boot.model_env)) =>
       /\ boot.pc = "failed"
       /\ boot.exc # "none"
       /\ ~boot.bot
       /\ ~boot.client

----------------------------------------------------------------------------
(* Retries *)

\* C24: in the handling of one message, or in one run of a reminder job, no
\* generation call is made after a generation call has failed.
C24_NoCallAfterFailure ==
    [][ last'.failed > 0 => last'.late = 0 ]_vars

----------------------------------------------------------------------------
(* Calls with the lesson history *)

\* C25: a generation call raises only when the service itself fails; the
\* history passed with the request is never a cause of failure, so a /new
\* for which the service answers every request serves its first section.
C25_HistoryAccepted ==
    [][ /\ last'.failed = last'.down
        /\ \A c \in Chats :
             NewLessonServed(c) =>
               /\ lesson_history' # <<>>
               /\ lesson_history'[Len(lesson_history')].role = "system"
               /\ "commands_hint" \in Range(last'.msgs)
      ]_vars

----------------------------------------------------------------------------
(* The previous content of the side commands *)

RECURSIVE LastSystemTurn(_)
\* the last turn of the history h that the bot generated, <<>> if none
LastSystemTurn(h) ==
    IF h = <<>> THEN <<>>
    ELSE IF h[Len(h)].role = "system" THEN <<h[Len(h)]>>
    ELSE LastSystemTurn(SubSeq(h, 1, Len(h) - 1))

\* C26: whenever /more, /better, the answer to a question or a conversation
\* opener quotes a turn of the history as the previous content, that turn is
\* the last system turn the history held when the message arrived.
C26_PreviousContentIsLastLesson ==
    [][ \A i \in 1..Len(last'.refs) : <<last'.refs[i]>> = LastSystemTurn(lesson_history) ]_vars

----------------------------------------------------------------------------
(* Routing by step *)

\* the next-step handler that asks for the answer of each awaiting_ step
HandlerOfStep ==
    [ awaiting_language |-> "language", awaiting_level |-> "level",
      awaiting_lesson_preference |-> "lesson_preference",
      awaiting_optional_questions_choice |-> "optional_questions_choice",
      awaiting_learned_languages |-> "learned_languages",
      awaiting_mastered_content |-> "mastered_content",
      awaiting_limitation |-> "limitation",
      awaiting_reminder_time |-> "reminder_time" ]

SetupStepHandlers == {HandlerOfStep[s] : s \in DOMAIN HandlerOfStep}

\* C27: the handler that gets a chat's next message is the one its step
\* names: the handler of X while the step is awaiting_X, and no setup-step
\* handler once the step is setup_complete.
C27_StepRoutesInput ==
    \A c \in Chats :
       /\ user_states[c].step \in DOMAIN HandlerOfStep =>
            next_step[c] = HandlerOfStep[user_states[c].step]
       /\ user_states[c].step = "setup_complete" => next_step[c] \notin SetupStepHandlers

----------------------------------------------------------------------------
(* Profile values in requests and reports *)

\* the lesson handlers, which build generation requests from the profile
LessonRequestHandlers ==
    { "handle_new_lesson_command", "handle_next_section_command",
      "handle_more_details_command", "handle_better_explanation_command",
      "continue_conversation" }

\* C28: every level named in a request that a lesson handler builds for a
\* chat is the level stored in that chat's own profile.
C28_RequestsUseOwnProfile ==
    [][ \A c \in Chats :
          (last'.chat = c /\ last'.handler \in LessonRequestHandlers) =>
             last'.levels \subseteq {user_states[c].level} ]_vars

\* the items of a list of the profile, none when the key is missing
ItemsOf(l) == IF l = AbsentList THEN {} ELSE {l[i] : i \in 1..Len(l)}

\* the report shows, for every value the profile of chat c holds, that value
ReportsProfile(d, c) ==
    LET p == user_states[c] IN
    /\ p.language # Absent => d.language = p.language
    /\ p.level # Absent => d.level = p.level
    /\ p.limitation # Absent => d.limitation = p.limitation
    /\ p.reminder_time # Absent => d.reminder_time = p.reminder_time
    /\ p.learned_languages # AbsentList => d.learned_languages = p.learned_languages
    /\ d.mastered = ItemsOf(p.mastered)
    /\ p.seen_content # <<>> => d.seen_content = ItemsOf(p.seen_content)

\* C29: the values a /data report shows to a chat are those of that chat's
\* own profile.
C29_DataReportsOwnProfile ==
    [][ \A c \in Chats :
          (last'.chat = c /\ last'.handler = "handle_data_command") =>
             /\ Len(last'.data) = 1
             /\ ReportsProfile(last'.data[1], c) ]_vars

----------------------------------------------------------------------------
(* The reminder schedule *)

\* C30: a chat that has answered the reminder question has at most one
\* scheduled reminder, at the time stored in its profile, and none when it
\* answered 'no' (the stored time is None).
C30_OneJobAtStoredTime ==
    \A c \in Chats :
       user_states[c].reminder_time # Absent =>
         /\ Cardinality(ReminderJobsOf(c)) <= 1
         /\ \A i \in ReminderJobsOf(c) : jobs[i].time = user_states[c].reminder_time

----------------------------------------------------------------------------
(* Profile-edit commands *)

\* C31: when the answer to a profile-edit command has been processed (a
\* valid answer, no call raised), no setup question other than the one just
\* answered is pending, the step is not earlier than it was, and no lesson
\* has been started.
C31_EditUpdatesOneField ==
    [][ \A c \in Chats :
          (/\ last.handler = "handle_edit_command" /\ last.chat = c
           /\ last'.chat = c /\ last'.handler \in SetupProcessors
           /\ ~Invalid(last'.text) /\ last'.failed = 0) =>
             /\ next_step'[c] \in {"none", StepOf[last'.handler]}
             /\ Rank(user_states'[c].step) >= Rank(user_states[c].step)
             /\ "starting_lesson" \notin Range(last'.msgs)
             /\ lesson_history' = lesson_history
      ]_vars

----------------------------------------------------------------------------
(* A failed new lesson *)

\* C32: a /new whose curriculum came back empty, or in which a generation
\* call raised, leaves lesson_history and the chat's lesson_sections,
\* seen_content and next_lesson as they were.
C32_FailedNewLessonNoCommit ==
    [][ \A c \in Chats :
          (/\ last'.chat = c /\ last'.handler = "handle_new_lesson_command"
           /\ "no_sections" \in Range(last'.msgs) \/ last'.failed > 0) =>
             /\ lesson_history' = lesson_history
             /\ user_states'[c].lesson_sections = user_states[c].lesson_sections
             /\ user_states'[c].seen_content = user_states[c].seen_content
             /\ user_states'[c].next_lesson = user_states[c].next_lesson
      ]_vars

----------------------------------------------------------------------------
(* Order of consumption *)

----------------------------------------------------------------------------
(* Growth of the lesson history *)

\* C34: a handler other than /setup and those that start a lesson keeps the
\* turns of lesson_history as they are and only adds turns at the end; and a
\* /next that finds a section to serve for a chat with language and level,
\* while the service answers every request it gets, adds after its own
\* '/next' turn exactly one turn, a system turn holding the content sent.
C34_AppendOnly ==
    [][ /\ last'.handler \notin ({"handle_setup_command"} \cup NewLessonHandlers) =>
             /\ Len(lesson_history') >= Len(lesson_history)
             /\ SubSeq(lesson_history', 1, Len(lesson_history)) = lesson_history
        /\ \A c \in Chats :
             (/\ last'.chat = c /\ last'.handler = "handle_next_section_command"
              /\ QueueBefore(c) # <<>>
              /\ user_states[c].language # Absent /\ user_states[c].level # Absent
              /\ last'.down = 0) =>
                 /\ Len(lesson_history') = Len(lesson_history) + 2
                 /\ lesson_history'[Len(lesson_history) + 1] = Turn("user", "/next")
                 /\ lesson_history'[Len(lesson_history) + 2].role = "system"
                 /\ lesson_history'[Len(lesson_history) + 2].content \in Range(last'.msgs)
      ]_vars

----------------------------------------------------------------------------
(* The setup command *)

\* C35: whenever the /setup handler runs for a chat, whatever profile the
\* chat had, the chat's profile afterwards holds the step awaiting_language
\* and no other field (no language, no level, no queue of sections), the
\* language question is the one message sent, no generation call is made and
\* the chat's next message goes to the language step.
C35_SetupReplacesProfile ==
    [][ \A c \in Chats :
          (last'.chat = c /\ last'.handler = "handle_setup_command") =>
             /\ user_states'[c] = FreshProfile
             /\ user_states'[c].lesson_sections = AbsentList
             /\ last'.msgs = <<"ask_language">>
             /\ last'.calls = 0 /\ last'.exc = "none"
             /\ next_step'[c] = "language"
      ]_vars

\* /setup has run for a chat that had started a lesson on the default topic,
\* so had a language, a level and a queue of sections: the profile is fresh
C35_Witness ==
    /\ last.handler = "handle_setup_command"
    /\ user_states[last.chat] = FreshProfile
    /\ DefaultTopic \in shared.seen_content
    /\ shared.level # InitShared.level
    /\ next_step[last.chat] = "language"

----------------------------------------------------------------------------
(* Invalid answers to the optional-questions choice *)

\* C36: whenever the optional-questions step gets an answer that contains
\* neither 'yes' nor 'no', the chat's profile is left as it was, the
\* invalid-choice message is the one message sent and the chat's next message
\* goes to the optional-questions step again.
C36_InvalidChoiceRepeats ==
    [][ \A c \in Chats :
          (/\ last'.chat = c /\ last'.handler = "process_optional_questions_choice"
           /\ last'.text \notin {"yes", "no"}) =>
             /\ user_states'[c] = user_states[c]
             /\ last'.msgs = <<"invalid_choice">>
             /\ next_step'[c] = "optional_questions_choice"
      ]_vars

----------------------------------------------------------------------------
(* Two chats and the scheduler *)

\* two chats run /setup, leave or answer the language question, set a
\* reminder time with /reminder, and the scheduler runs their reminders
NextIsolated ==
    \/ \E c \in Chats :
         \/ SetupCommand(c)
         \/ LanguageInput(Said(c), c, "/x")
         \/ EditCommand(c, "reminder")
         \/ ReminderTimeInput(OneVal, c, "text")
    \/ Scheduler

SpecIsolated == Init /\ [][NextIsolated]_vars

\* C37: a step taken for one chat, a message handled or a reminder callback
\* run, leaves the profile and the reminded_today flag of every other chat as
\* they were; only the daily reset, which belongs to no chat, writes the
\* flags of several chats.
C37_ChatsIsolated ==
    [][ \A b \in Chats :
          (last'.chat # b /\ last'.handler # "reset_reminded_flag") =>
             /\ user_states'[b] = user_states[b]
             /\ reminded_today'[b] = reminded_today[b]
      ]_vars

\* the reminder of chat "A" has been sent and its flag set while chat "B",
\* with a profile and a reminder time of its own, has no flag yet
C37_Witness ==
    /\ last.chat = "A" /\ last.handler = "send_reminder_callback"
    /\ last.msgs = <<"reminder">>
    /\ reminded_today["A"] = "true"
    /\ user_states["A"].reminder_time \in Times
    /\ user_states["B"].reminder_time \in Times
    /\ reminded_today["B"] = "absent"

====
